---- MODULE Spec2Model ----
(***************************************************************************)
(* A model of three components of the daemon:                              *)
(*   - the taker controller   (daemon/src/taker_cfd_actor.rs)              *)
(*   - the rollover store     (sqlite-db/src/rollover/{insert,load}.rs)    *)
(*   - the peer endpoint      (libp2p-xtra/src/endpoint.rs)                *)
(* Each component has its own specification (SpecTaker, SpecStore,         *)
(* SpecEndpoint) over the variables it owns.                               *)
(***************************************************************************)
EXTENDS Integers, Sequences, FiniteSets, TLC

None == "None"

Ok(v) == [ok |-> TRUE, val |-> v]

Err == [ok |-> FALSE, val |-> None]

(***************************************************************************)
(* TAKER CONTROLLER                                                        *)
(***************************************************************************)

\* bounds of the taker model
MaxOrders == 2

MaxReceiver == 2

MaxCommands == 4

OrderIds == {"U" \o ToString(i) : i \in 1..MaxOrders}

Quantities == {500}

\* a wire::SetupMsg; the controller forwards it without looking inside
SetupMsgs == {"SetupMsg"}

CfdStates == {"PendingTakeRequest", "ContractSetup", "Open"}

VARIABLES
  t_pc,                    \* the actor future: "init", "running", "panicked"
  t_panic,                 \* the call or macro the actor future panicked at
  receiver,                \* the mpsc command queue of the controller
  message,                 \* the command bound by `while let Some(message)`
  db_orders,               \* store: the orders
  db_cfds,                 \* store: the CFDs, each with its latest state
  cfd_feed,                \* last value sent on cfd_feed_actor_inbox
  order_feed,              \* last value sent on order_feed_actor_inbox
  wallet_feed,             \* last value sent on wallet_feed_sender
  out_msg_maker,           \* wire messages sent to the maker, in order
  current_contract_setup,  \* None or the index of a setup actor (its inbox)
  setups,                  \* the setup actors spawned so far
  cmds_sent                \* commands sent to the controller so far (bounded)

takerVars == <<t_pc, t_panic, receiver, message, db_orders, db_cfds, cfd_feed, order_feed,
               wallet_feed, out_msg_maker, current_contract_setup, setups,
               cmds_sent>>

VARIABLES
  rollover_completed_event_data,  \* table: one row per (cfd_id, event_id)
  revoked_commit_transactions,    \* table: one row per revoked commit
  open_cets,                      \* table: one row per CET
  s_last,                         \* the last call on the store and its result
  committed                       \* cfd row id -> its last committed rollover insert

storeVars == <<rollover_completed_event_data, revoked_commit_transactions, open_cets,
               s_last, committed>>

VARIABLES
  controls,               \* HashMap<PeerId, (Control, Tasks)>: peer -> connection
  inflight_connections,   \* HashSet<PeerId>
  listen_addresses,       \* HashSet<Multiaddr>
  mailbox,                \* the endpoint actor's mailbox, in arrival order
  dialing,                \* peer -> number of dial tasks that have not finished
  listening,              \* address -> number of running listener tasks
  conns,                  \* the connections created so far, by id
  substreams,             \* the inbound substreams negotiated so far, by id
  handler_inbox,          \* handler -> the NewInboundSubstream messages it got
  handlers_alive,         \* the handler actors whose mailbox is still open
  connect_log,            \* peer -> results of its Connects, and when it was dropped
  e_cmds,                 \* commands sent to the endpoint so far (bounded)
  teardown,               \* peer -> what its caller saw since Disconnect was handled
  dial_outcomes,          \* peer -> NewConnection and FailedToConnect of its dials handled
  stats,                  \* the last ConnectionStats returned
  open_reply,             \* the last OpenSubstream call and what it returned
  outbound,               \* the substreams negotiated with remote peers, by id
  e_new                   \* the last call of Endpoint::new and its outcome

\* what the callers of the endpoint and the remote peers hold
callerVars == <<stats, open_reply, outbound, e_new>>

endpointVars == <<controls, inflight_connections, listen_addresses, mailbox, dialing,
                  listening, conns, substreams, handler_inbox, handlers_alive,
                  connect_log, e_cmds, teardown, dial_outcomes, callerVars>>

\* what a step of the taker controller leaves alone
nonTakerVars == <<storeVars, endpointVars>>

\* a Command; the fields a variant does not carry hold None / 0
Cmd(type, order_id, quantity, msg, actor) ==
  [type |-> type, order_id |-> order_id, quantity |-> quantity, msg |-> msg,
   actor |-> actor]

NoCmd == Cmd(None, None, 0, None, 0)

\* current_contract_setup = None
NoSetup == 0

\* the value of a watch channel nothing was sent on yet
Unsent == [sent |-> FALSE, val |-> <<>>]

\* a send that leaves an empty list on the channel
Sent_stale(v) == [sent |-> TRUE, val |-> <<>>]

Sent(v) == [sent |-> TRUE, val |-> v]

\* ---- the store as the controller uses it (crate::db) ----

load_order_by_id(order_id, orders) ==
  IF order_id \in orders THEN Ok(order_id) ELSE Err

HasCfd(order_id, cfds) == \E i \in DOMAIN cfds : cfds[i].order_id = order_id

insert_cfd_dup(cfd, cfds) == Ok(Append(cfds, cfd))

insert_cfd(cfd, cfds) ==
  IF HasCfd(cfd.order_id, cfds) THEN Err ELSE Ok(Append(cfds, cfd))

insert_new_cfd_state_by_order_id(order_id, state, cfds) ==
  IF ~HasCfd(order_id, cfds) THEN Err
  ELSE Ok([i \in DOMAIN cfds |->
            IF cfds[i].order_id = order_id
            THEN [cfds[i] EXCEPT !.state = state] ELSE cfds[i]])

\* a query that returns only the CFDs still in PendingTakeRequest
load_pending_cfds(cfds) == SelectSeq(cfds, LAMBDA c : c.state = "PendingTakeRequest")

load_all_cfds(cfds) == cfds

load_cfd_by_order_id(order_id, cfds) ==
  IF ~HasCfd(order_id, cfds) THEN Err
  ELSE Ok(cfds[CHOOSE i \in DOMAIN cfds : cfds[i].order_id = order_id])

insert_order(order, orders) == orders \cup {order}

Cfd_new(order, quantity, state) ==
  [order_id |-> order, quantity |-> quantity, state |-> state]

\* ---- the contract-setup actor (crate::setup_contract_actor) ----

setup_contract_actor_new(cfd) ==
  [order_id |-> cfd.order_id, phase |-> "running", inbox |-> <<>>]

Active(a) == a \in DOMAIN setups /\ setups[a].phase # "handled"

ActiveSetups == {a \in DOMAIN setups : Active(a)}

TakerInit ==
  /\ t_pc = "init"
  /\ t_panic = None
  /\ receiver = <<>>
  /\ message = NoCmd
  /\ db_orders \in {{}, {"U1"}}
  /\ db_cfds \in {<<>>} \cup
       (IF "U1" \in db_orders
        THEN {<<Cfd_new("U1", 500, "PendingTakeRequest")>>} ELSE {})
  /\ cfd_feed = Unsent
  /\ order_feed = None
  /\ wallet_feed = None
  /\ out_msg_maker = <<>>
  /\ current_contract_setup = NoSetup
  /\ setups = <<>>
  /\ cmds_sent = 0

\* the controller's initial feed population, before the command loop
TakerStart ==
  /\ UNCHANGED nonTakerVars
  /\ t_pc = "init"
  /\ \E fault \in {"none", "acquire", "load_all_cfds", "cfd_feed"} :
       IF fault = "none"
       THEN /\ cfd_feed' = Sent(load_all_cfds(db_cfds))
            /\ t_pc' = "running"
            /\ UNCHANGED <<receiver, t_panic>>
       ELSE /\ t_pc' = "panicked"
            /\ t_panic' = fault
            /\ receiver' = <<>>
            /\ UNCHANGED cfd_feed
  /\ UNCHANGED <<message, db_orders, db_cfds, order_feed, wallet_feed,
                 out_msg_maker, current_contract_setup, setups, cmds_sent>>

\* ---- the senders of commands: UI, maker connection, setup completion task ----

CanSend ==
  /\ t_pc # "panicked"
  /\ Len(receiver) < MaxReceiver
  /\ cmds_sent < MaxCommands

Enqueue(cmd) ==
  /\ UNCHANGED nonTakerVars
  /\ receiver' = Append(receiver, cmd)
  /\ cmds_sent' = cmds_sent + 1
  /\ UNCHANGED <<t_pc, t_panic, message, db_orders, db_cfds, cfd_feed,
                 order_feed, wallet_feed, out_msg_maker, current_contract_setup,
                 setups>>

SendSyncWallet ==
  /\ CanSend
  /\ Enqueue(Cmd("SyncWallet", None, 0, None, 0))

SendTakeOrder ==
  /\ CanSend
  /\ \E o \in OrderIds, q \in Quantities :
       Enqueue(Cmd("TakeOrder", o, q, None, 0))

SendNewOrder ==
  /\ CanSend
  /\ \E o \in OrderIds \cup {None} : Enqueue(Cmd("NewOrder", o, 0, None, 0))

SendOrderAccepted ==
  /\ CanSend
  /\ \E o \in OrderIds : Enqueue(Cmd("OrderAccepted", o, 0, None, 0))

SendIncProtocolMsg ==
  /\ CanSend
  /\ \E m \in SetupMsgs : Enqueue(Cmd("IncProtocolMsg", None, 0, m, 0))

\* ---- the command loop: one action per match arm ----

Recv(type) ==
  /\ t_pc = "running"
  /\ receiver # <<>>
  /\ Head(receiver).type = type
  /\ message' = Head(receiver)

\* the arm returns and the loop goes back to receiver.recv()
Continue ==
  /\ t_pc' = "running"
  /\ receiver' = Tail(receiver)
  /\ UNCHANGED t_panic

\* unwrap() on an Err or a None, panic!, todo!: the actor future unwinds and
\* drops its receiver, so the commands still queued are never handled
Panic(site) ==
  /\ t_pc' = "panicked"
  /\ t_panic' = site
  /\ receiver' = <<>>

HandleSyncWallet ==
  /\ UNCHANGED nonTakerVars
  /\ Recv("SyncWallet")
  /\ \E fault \in {"none", "wallet_sync", "wallet_feed"} :
       IF fault = "none"
       THEN /\ wallet_feed' = "WalletInfo"
            /\ Continue
       ELSE /\ Panic(fault)
            /\ UNCHANGED wallet_feed
  /\ UNCHANGED <<db_orders, db_cfds, cfd_feed, order_feed, out_msg_maker,
                 current_contract_setup, setups, cmds_sent>>

HandleTakeOrder ==
  /\ UNCHANGED nonTakerVars
  /\ Recv("TakeOrder")
  /\ \E fault \in {"none", "acquire", "load_order_by_id", "insert_cfd",
                    "load_all_cfds", "cfd_feed", "out_msg_maker"} :
       LET order_id == Head(receiver).order_id
           quantity == Head(receiver).quantity
           current_order == load_order_by_id(order_id, db_orders)
           cfd == Cfd_new(order_id, quantity, "PendingTakeRequest")
           inserted == insert_cfd(cfd, db_cfds)
       IN IF fault = "acquire"
          THEN /\ Panic("acquire")
               /\ UNCHANGED <<db_cfds, cfd_feed, out_msg_maker>>
          ELSE IF fault = "load_order_by_id" \/ ~current_order.ok
          THEN /\ Panic("load_order_by_id")
               /\ UNCHANGED <<db_cfds, cfd_feed, out_msg_maker>>
          ELSE IF fault = "insert_cfd" \/ ~inserted.ok
          THEN /\ Panic("insert_cfd")
               /\ UNCHANGED <<db_cfds, cfd_feed, out_msg_maker>>
          ELSE /\ db_cfds' = inserted.val
               /\ IF fault \in {"load_all_cfds", "cfd_feed"}
                  THEN /\ Panic(fault)
                       /\ UNCHANGED <<cfd_feed, out_msg_maker>>
                  ELSE /\ cfd_feed' = Sent(load_all_cfds(db_cfds'))
                       /\ IF fault = "out_msg_maker"
                          THEN /\ Panic(fault)
                               /\ UNCHANGED out_msg_maker
                          ELSE /\ out_msg_maker' = Append(out_msg_maker,
                                    [type |-> "TakeOrder", order_id |-> order_id,
                                     quantity |-> quantity])
                               /\ Continue
  /\ UNCHANGED <<db_orders, order_feed, wallet_feed, current_contract_setup,
                 setups, cmds_sent>>

HandleNewOrderSome ==
  /\ UNCHANGED nonTakerVars
  /\ Recv("NewOrder")
  /\ Head(receiver).order_id # None
  /\ \E fault \in {"none", "acquire", "insert_order", "order_feed"} :
       LET order == Head(receiver).order_id
       IN IF fault \in {"acquire", "insert_order"}
          THEN /\ Panic(fault)
               /\ UNCHANGED <<db_orders, order_feed>>
          ELSE /\ db_orders' = insert_order(order, db_orders)
               /\ IF fault = "order_feed"
                  THEN /\ Panic(fault)
                       /\ UNCHANGED order_feed
                  ELSE /\ order_feed' = order
                       /\ Continue
  /\ UNCHANGED <<db_cfds, cfd_feed, wallet_feed, out_msg_maker,
                 current_contract_setup, setups, cmds_sent>>

HandleNewOrderNone ==
  /\ UNCHANGED nonTakerVars
  /\ Recv("NewOrder")
  /\ Head(receiver).order_id = None
  /\ \E fault \in {"none", "order_feed"} :
       IF fault = "none"
       THEN /\ order_feed' = None
            /\ Continue
       ELSE /\ Panic(fault)
            /\ UNCHANGED order_feed
  /\ UNCHANGED <<db_orders, db_cfds, cfd_feed, wallet_feed, out_msg_maker,
                 current_contract_setup, setups, cmds_sent>>

HandleOrderAccepted ==
  /\ UNCHANGED nonTakerVars
  /\ Recv("OrderAccepted")
  /\ \E fault \in {"none", "acquire", "insert_new_cfd_state", "load_all_cfds",
                    "cfd_feed", "load_cfd_by_order_id", "margin",
                    "build_party_params"} :
       LET order_id == Head(receiver).order_id
           updated == insert_new_cfd_state_by_order_id(order_id, "ContractSetup",
                                                       db_cfds)
       IN IF fault = "acquire"
          THEN /\ Panic("acquire")
               /\ UNCHANGED <<db_cfds, cfd_feed, current_contract_setup, setups>>
          ELSE IF fault = "insert_new_cfd_state" \/ ~updated.ok
          THEN /\ Panic("insert_new_cfd_state")
               /\ UNCHANGED <<db_cfds, cfd_feed, current_contract_setup, setups>>
          ELSE /\ db_cfds' = updated.val
               /\ IF fault \in {"load_all_cfds", "cfd_feed"}
                  THEN /\ Panic(fault)
                       /\ UNCHANGED <<cfd_feed, current_contract_setup, setups>>
                  ELSE /\ cfd_feed' = Sent(load_all_cfds(db_cfds'))
                       /\ LET cfd == load_cfd_by_order_id(order_id, db_cfds')
                          IN IF fault \in {"load_cfd_by_order_id", "margin",
                                           "build_party_params"}
                             THEN /\ Panic(fault)
                                  /\ UNCHANGED <<current_contract_setup, setups>>
                             ELSE IF ~cfd.ok
                             THEN /\ Panic("load_cfd_by_order_id")
                                  /\ UNCHANGED <<current_contract_setup, setups>>
                             ELSE /\ setups' = Append(setups,
                                        setup_contract_actor_new(cfd.val))
                                  /\ current_contract_setup' = Len(setups')
                                  /\ Continue
  /\ UNCHANGED <<db_orders, order_feed, wallet_feed, out_msg_maker, cmds_sent>>

HandleIncProtocolMsg ==
  /\ UNCHANGED nonTakerVars
  /\ Recv("IncProtocolMsg")
  /\ IF current_contract_setup = NoSetup
     THEN /\ Panic("whoops")
          /\ UNCHANGED setups
     ELSE IF setups[current_contract_setup].phase # "running"
     THEN \* the inbox of a finished actor is closed: inbox.send(msg).unwrap()
          /\ Panic("inbox")
          /\ UNCHANGED setups
     ELSE /\ setups' = [setups EXCEPT ![current_contract_setup].inbox =
                           Append(@, Head(receiver).msg)]
          /\ Continue
  /\ UNCHANGED <<db_orders, db_cfds, cfd_feed, order_feed, wallet_feed,
                 out_msg_maker, current_contract_setup, cmds_sent>>

HandleCfdSetupCompleted ==
  /\ UNCHANGED nonTakerVars
  /\ Recv("CfdSetupCompleted")
  /\ Panic("todo")
  /\ setups' = [setups EXCEPT ![Head(receiver).actor].phase = "handled"]
  /\ UNCHANGED <<db_orders, db_cfds, cfd_feed, order_feed, wallet_feed,
                 out_msg_maker, current_contract_setup, cmds_sent>>

\* ---- the setup actors and their completion tasks ----

\* the actor takes a message from its inbox and answers it through the send
\* closure it was given: wire::TakerToMaker::Protocol(msg)
SetupActorReceives(a) ==
  /\ UNCHANGED nonTakerVars
  /\ a \in DOMAIN setups
  /\ setups[a].phase = "running"
  /\ setups[a].inbox # <<>>
  /\ setups' = [setups EXCEPT ![a].inbox = Tail(@)]
  /\ out_msg_maker' = Append(out_msg_maker,
        [type |-> "Protocol", order_id |-> setups[a].order_id, quantity |-> 0])
  /\ UNCHANGED <<t_pc, t_panic, receiver, message, db_orders, db_cfds,
                 cfd_feed, order_feed, wallet_feed, current_contract_setup,
                 cmds_sent>>

\* the completion future resolves (success or abort); the spawned task posts
\* CfdSetupCompleted to the controller's own queue
SetupActorCompletes(a) ==
  /\ UNCHANGED nonTakerVars
  /\ a \in DOMAIN setups
  /\ setups[a].phase = "running"
  /\ setups' = [setups EXCEPT ![a].phase = "finished", ![a].inbox = <<>>]
  /\ receiver' = IF t_pc = "panicked" THEN receiver
                 ELSE Append(receiver, Cmd("CfdSetupCompleted", None, 0, None, a))
  /\ UNCHANGED <<t_pc, t_panic, message, db_orders, db_cfds, cfd_feed,
                 order_feed, wallet_feed, out_msg_maker, current_contract_setup,
                 cmds_sent>>

NextTaker ==
  \/ TakerStart
  \/ SendSyncWallet
  \/ SendTakeOrder
  \/ SendNewOrder
  \/ SendOrderAccepted
  \/ SendIncProtocolMsg
  \/ HandleSyncWallet
  \/ HandleTakeOrder
  \/ HandleNewOrderSome
  \/ HandleNewOrderNone
  \/ HandleOrderAccepted
  \/ HandleIncProtocolMsg
  \/ HandleCfdSetupCompleted
  \/ \E a \in 1..MaxCommands : SetupActorReceives(a)
  \/ \E a \in 1..MaxCommands : SetupActorCompletes(a)

(***************************************************************************)
(* ROLLOVER STORE                                                          *)
(***************************************************************************)

\* table cfds(id, uuid): the CFDs the rollover tables refer to
cfds == ("U1" :> 1) @@ ("U2" :> 2)

\* table events(id, cfd_id): the row id an event was assigned, and its CFD
events == (1 :> "U1") @@ (2 :> "U1") @@ (3 :> "U2")

EventRowIds == DOMAIN events

\* (select id from cfds where cfds.uuid = $1)
select_id_from_cfds(uuid) == cfds[uuid]

\* A u64 is kept as its top bit and its low 63 bits, so that the casts and the
\* comparison with 2^63 are exact.
U64(b63, low) == [b63 |-> b63, low |-> low]

\* `x as i64`: the same 64 bits, the top bit read as the sign
as_i64(u) == [negative |-> u.b63 = 1, low |-> u.low]

\* `x as u64`, `x as usize`: the same 64 bits, the sign read as the top bit
as_u64(i) == [b63 |-> IF i.negative THEN 1 ELSE 0, low |-> i.low]

\* a u32 bound to a query parameter is widened to the INTEGER column by value
u32_to_i64(n) == [negative |-> FALSE, low |-> n]

\* `x as u32`: the low 32 bits (every timelock of the model fits in them)
as_u32(i) == i.low

\* to_string / from_str of an address, a descriptor, a signature, a txid
to_string(v) == [text |-> v]

from_str(t) == t.text

\* to_hex / from_hex of a script
to_hex(v) == [hex |-> v]

from_hex(t) == t.hex

Sat(n) == U64(0, n)

\* an amount with bit 63 set, i.e. at least 2^63 satoshi
HugeSat(n) == U64(1, n)

Cet(txid, maker_amount, taker_amount, range_start, range_end) ==
  [maker_amount |-> maker_amount, taker_amount |-> taker_amount,
   adaptor_sig |-> "sig_" \o txid, range |-> <<U64(0, range_start), U64(0, range_end)>>,
   n_bits |-> U64(0, 20), txid |-> txid]

RevokedCommit(txid) ==
  [encsig_ours |-> "encsig_" \o txid, revocation_sk_theirs |-> "rev_sk_" \o txid,
   publication_pk_theirs |-> "pub_pk_" \o txid, script_pubkey |-> "script_" \o txid,
   txid |-> txid]

Dlc(maker_lock_amount, taker_lock_amount, revoked_commit, cets) ==
  [identity |-> "identity_sk", identity_counterparty |-> "identity_pk",
   revocation |-> "revocation_sk", revocation_pk_counterparty |-> "revocation_pk",
   publish |-> "publish_sk", publish_pk_counterparty |-> "publish_pk",
   maker_address |-> "maker_address", taker_address |-> "taker_address",
   lock |-> <<"lock_tx", "lock_descriptor">>,
   commit |-> <<"commit_tx", "commit_adaptor_signature", "commit_descriptor">>,
   refund |-> <<"refund_tx", "refund_signature">>,
   cets |-> cets,
   maker_lock_amount |-> maker_lock_amount, taker_lock_amount |-> taker_lock_amount,
   revoked_commit |-> revoked_commit,
   settlement_event_id |-> "E1", refund_timelock |-> 144]

FundingFee(fee, rate) == [fee |-> fee, rate |-> rate]

\* The RolloverCompleted payloads the model inserts: two oracle events with
\* three CETs and two revoked commits; an oracle event whose CET list is empty;
\* amounts of 2^63 satoshi and more.
Payloads ==
  { [dlc |-> Dlc(Sat(100), Sat(50), <<RevokedCommit("x1"), RevokedCommit("x2")>>,
                 ("E1" :> <<Cet("c1", Sat(150), Sat(0), 0, 9),
                            Cet("c2", Sat(0), Sat(150), 10, 19)>>)
                 @@ ("E2" :> <<Cet("c3", Sat(75), Sat(75), 0, 19)>>)),
     funding_fee |-> FundingFee(Sat(3), "r1")],
    [dlc |-> Dlc(Sat(50), Sat(100), <<>>,
                 ("E1" :> <<Cet("c1", Sat(150), Sat(0), 0, 9)>>) @@ ("E2" :> <<>>)),
     funding_fee |-> FundingFee(Sat(0), "r2")],
    [dlc |-> Dlc(HugeSat(100), Sat(50), <<>>,
                 ("E1" :> <<Cet("c1", HugeSat(150), Sat(0), 0, 9)>>)),
     funding_fee |-> FundingFee(HugeSat(3), "r1")] }

\* Option<Dlc>
Some(v) == [some |-> TRUE, val |-> v]

NoDlc == [some |-> FALSE]

\* a CfdEvent: the CFD's OrderId and the EventKind with its payload
CfdEvent(id, kind, dlc, funding_fee) ==
  [id |-> id, kind |-> kind, dlc |-> dlc, funding_fee |-> funding_fee]

CfdEvents ==
  {CfdEvent(id, "RolloverCompleted", Some(p.dlc), p.funding_fee) :
     id \in DOMAIN cfds, p \in Payloads}
  \cup {CfdEvent(id, "RolloverCompleted", NoDlc, FundingFee(Sat(3), "r1")) :
          id \in DOMAIN cfds}
  \cup {CfdEvent(id, "ContractSetupCompleted", NoDlc, FundingFee(Sat(0), "r1")) :
          id \in DOMAIN cfds}

\* the three tables as one value: what a transaction reads and writes
Tables ==
  [rollover_completed_event_data |-> rollover_completed_event_data,
   revoked_commit_transactions |-> revoked_commit_transactions,
   open_cets |-> open_cets]

\* a delete step that removes the CFD's row of scalars and leaves its revoked
\* commits and CETs in place
delete_event_data_only(tx, offer_id) ==
  [tx EXCEPT !.rollover_completed_event_data =
     SelectSeq(@, LAMBDA r : r.cfd_id # select_id_from_cfds(offer_id))]

\* a delete step that removes nothing
delete_nothing(tx, offer_id) == tx

\* rollover::delete::delete: removes the CFD's rows from the three tables
delete(tx, offer_id) ==
  LET others(t) == SelectSeq(t, LAMBDA r : r.cfd_id # select_id_from_cfds(offer_id))
  IN  [rollover_completed_event_data |-> others(tx.rollover_completed_event_data),
       revoked_commit_transactions |-> others(tx.revoked_commit_transactions),
       open_cets |-> others(tx.open_cets)]

\* the statement of insert_rollover_completed_event_data: the table and the row
insert_rollover_completed_event_data(event_id, dlc, funding_fee, offer_id) ==
  [table |-> "rollover_completed_event_data",
   row |-> [cfd_id |-> select_id_from_cfds(offer_id),
            event_id |-> event_id,
            settlement_event_id |-> dlc.settlement_event_id,
            refund_timelock |-> u32_to_i64(dlc.refund_timelock),
            funding_fee |-> as_i64(funding_fee.fee),
            rate |-> funding_fee.rate,
            identity |-> dlc.identity,
            identity_counterparty |-> dlc.identity_counterparty,
            maker_address |-> to_string(dlc.maker_address),
            taker_address |-> to_string(dlc.taker_address),
            maker_lock_amount |-> as_i64(dlc.maker_lock_amount),
            taker_lock_amount |-> as_i64(dlc.taker_lock_amount),
            publish_sk |-> dlc.publish,
            publish_pk_counterparty |-> dlc.publish_pk_counterparty,
            revocation_secret |-> dlc.revocation,
            revocation_pk_counterparty |-> dlc.revocation_pk_counterparty,
            lock_tx |-> dlc.lock[1],
            lock_tx_descriptor |-> to_string(dlc.lock[2]),
            commit_tx |-> dlc.commit[1],
            commit_adaptor_signature |-> dlc.commit[2],
            commit_descriptor |-> to_string(dlc.commit[3]),
            refund_tx |-> dlc.refund[1],
            refund_signature |-> to_string(dlc.refund[2])]]

\* the statement of insert_revoked_commit_transaction
insert_revoked_commit_transaction(offer_id, revoked) ==
  [table |-> "revoked_commit_transactions",
   row |-> [cfd_id |-> select_id_from_cfds(offer_id),
            encsig_ours |-> revoked.encsig_ours,
            publication_pk_theirs |-> revoked.publication_pk_theirs,
            revocation_sk_theirs |-> revoked.revocation_sk_theirs,
            script_pubkey |-> to_hex(revoked.script_pubkey),
            txid |-> revoked.txid]]

\* the statement of insert_cet
insert_cet(event_id, offer_id, cet) ==
  [table |-> "open_cets",
   row |-> [cfd_id |-> select_id_from_cfds(offer_id),
            oracle_event_id |-> event_id,
            adaptor_sig |-> cet.adaptor_sig,
            maker_amount |-> as_i64(cet.maker_amount),
            taker_amount |-> as_i64(cet.taker_amount),
            n_bits |-> as_i64(cet.n_bits),
            range_start |-> as_i64(cet.range[1]),
            range_end |-> as_i64(cet.range[2]),
            txid |-> to_string(cet.txid)]]

\* execute that writes the statement's row twice
execute_twice(tx, stmt) == [tx EXCEPT ![stmt.table] = Append(Append(@, stmt.row), stmt.row)]

\* execute: one row appended to the statement's table
execute(tx, stmt) == [tx EXCEPT ![stmt.table] = Append(@, stmt.row)]

\* the orders in which `for (event_id, cets) in dlc.cets` can visit a HashMap
IterationOrders(keys) ==
  {o \in [1..Cardinality(keys) -> keys] : \A i, j \in DOMAIN o : o[i] = o[j] => i = j}

RECURSIVE CetStatements(_, _, _, _)
\* the insert_cet statements from the k-th visited oracle event on
CetStatements(dlc, offer_id, order, k) ==
  IF k > Len(order) THEN <<>>
  ELSE [i \in 1..Len(dlc.cets[order[k]]) |->
          insert_cet(order[k], offer_id, dlc.cets[order[k]][i])]
       \o CetStatements(dlc, offer_id, order, k + 1)

\* the sub-inserts of one insert, in the order the code runs them
Statements(event_id, event, order) ==
  <<insert_rollover_completed_event_data(event_id, event.dlc.val, event.funding_fee,
                                         event.id)>>
  \o [i \in 1..Len(event.dlc.val.revoked_commit) |->
        insert_revoked_commit_transaction(event.id, event.dlc.val.revoked_commit[i])]
  \o CetStatements(event.dlc.val, event.id, order, 1)

RECURSIVE Run(_, _, _)
\* the transaction after the first n statements
Run(tx, stmts, n) == IF n = 0 THEN tx ELSE execute(Run(tx, stmts, n - 1), stmts[n])

\* a fault injected into one call: none, or the step that fails and how
NoFault == [site |-> "none", index |-> 0, kind |-> "none"]

Faults(n) ==
  {NoFault,
   [site |-> "begin", index |-> 0, kind |-> "error"],
   [site |-> "delete", index |-> 0, kind |-> "error"]}
  \cup {[site |-> "insert", index |-> k, kind |-> kind] :
          k \in 1..n, kind \in {"error", "rows_affected"}}

\* Result<()>
Done == [ok |-> TRUE]

Failed == [ok |-> FALSE]

\* dropping the inner transaction without commit: every write since begin is undone
rollback_keeps_writes(before, tx) == tx

rollback(before, tx) == before

\* insert: the result and the tables after the call
insert(tables, event_id, event, order, fault) ==
  IF event.kind = "RolloverCompleted" /\ event.dlc.some
  THEN IF fault.site = "begin" THEN [result |-> Failed, tables |-> tables]
       ELSE IF fault.site = "delete"
       THEN [result |-> Failed, tables |-> rollback(tables, tables)]
       ELSE LET stmts == Statements(event_id, event, order)
                tx == delete(tables, event.id)
            IN  IF fault.site = "insert"
                THEN [result |-> Failed,
                      tables |-> rollback(tables, Run(tx, stmts, fault.index - 1))]
                ELSE [result |-> Done, tables |-> Run(tx, stmts, Len(stmts))]
  ELSE [result |-> Done, tables |-> tables]

\* Result<Option<(Dlc, FundingFee)>>
Found(dlc, funding_fee) == [ok |-> TRUE, row |-> Some(<<dlc, funding_fee>>)]

NotFound == [ok |-> TRUE, row |-> [some |-> FALSE]]

load_revoked_commit_transactions(tx, cfd_row_id) ==
  LET rows == SelectSeq(tx.revoked_commit_transactions,
                        LAMBDA r : r.cfd_id = cfd_row_id)
  IN  [i \in 1..Len(rows) |->
         [encsig_ours |-> rows[i].encsig_ours,
          revocation_sk_theirs |-> rows[i].revocation_sk_theirs,
          publication_pk_theirs |-> rows[i].publication_pk_theirs,
          script_pubkey |-> from_hex(rows[i].script_pubkey),
          txid |-> rows[i].txid]]

load_cets(tx, cfd_row_id) ==
  LET rows == SelectSeq(tx.open_cets, LAMBDA r : r.cfd_id = cfd_row_id)
      per_event ==
        [i \in 1..Len(rows) |->
           [event |-> rows[i].oracle_event_id,
            cet |-> [maker_amount |-> as_u64(rows[i].maker_amount),
                     taker_amount |-> as_u64(rows[i].taker_amount),
                     adaptor_sig |-> rows[i].adaptor_sig,
                     range |-> <<as_u64(rows[i].range_start),
                                 as_u64(rows[i].range_end)>>,
                     n_bits |-> as_u64(rows[i].n_bits),
                     txid |-> from_str(rows[i].txid)]]]
      of_event(e) == SelectSeq(per_event, LAMBDA p : p.event = e)
  IN  [e \in {per_event[i].event : i \in DOMAIN per_event} |->
         [i \in 1..Len(of_event(e)) |-> of_event(e)[i].cet]]

load(tx, cfd_row_id, event_row_id) ==
  LET revoked_commit == load_revoked_commit_transactions(tx, cfd_row_id)
      cets == load_cets(tx, cfd_row_id)
      rows == SelectSeq(tx.rollover_completed_event_data,
                        LAMBDA r : r.cfd_id = cfd_row_id /\ r.event_id = event_row_id)
  IN  IF Len(rows) = 0 THEN NotFound
      ELSE LET row == rows[1]
           IN  Found([identity |-> row.identity,
                      identity_counterparty |-> row.identity_counterparty,
                      revocation |-> row.revocation_secret,
                      revocation_pk_counterparty |-> row.revocation_pk_counterparty,
                      publish |-> row.publish_sk,
                      publish_pk_counterparty |-> row.publish_pk_counterparty,
                      maker_address |-> from_str(row.maker_address),
                      taker_address |-> from_str(row.taker_address),
                      lock |-> <<row.lock_tx, from_str(row.lock_tx_descriptor)>>,
                      commit |-> <<row.commit_tx, row.commit_adaptor_signature,
                                   from_str(row.commit_descriptor)>>,
                      refund |-> <<row.refund_tx, from_str(row.refund_signature)>>,
                      cets |-> cets,
                      maker_lock_amount |-> as_u64(row.maker_lock_amount),
                      taker_lock_amount |-> as_u64(row.taker_lock_amount),
                      revoked_commit |-> revoked_commit,
                      settlement_event_id |-> row.settlement_event_id,
                      refund_timelock |-> as_u32(row.refund_timelock)],
                     [fee |-> as_u64(row.funding_fee), rate |-> row.rate])

NoCall == [op |-> "none"]

\* no rollover insert has been committed for the CFD
NoCommit == [some |-> FALSE]

\* the rollover insert whose transaction was committed last for a CFD; replaced
\* says that it took the place of one committed under another event row id
Commit(event_id, dlc, replaced) ==
  [some |-> TRUE, event_id |-> event_id, dlc |-> dlc, replaced |-> replaced]

StoreInit ==
  /\ rollover_completed_event_data = <<>>
  /\ revoked_commit_transactions = <<>>
  /\ open_cets = <<>>
  /\ s_last = NoCall
  /\ committed = [c \in {cfds[id] : id \in DOMAIN cfds} |-> NoCommit]

\* one call of insert; the call and its result are kept in s_last, with a mark
\* (again) when it repeats the call before it, which had succeeded
Insert(event_id, event, order, fault) ==
  LET out == insert(Tables, event_id, event, order, fault)
  IN  /\ rollover_completed_event_data' = out.tables.rollover_completed_event_data
      /\ revoked_commit_transactions' = out.tables.revoked_commit_transactions
      /\ open_cets' = out.tables.open_cets
      /\ s_last' = [op |-> "insert", event_id |-> event_id, event |-> event,
                    fault |-> fault, result |-> out.result,
                    again |-> /\ s_last.op = "insert"
                              /\ s_last.result = Done
                              /\ s_last.event_id = event_id
                              /\ s_last.event = event]
      /\ committed' =
           IF out.result = Done /\ event.kind = "RolloverCompleted" /\ event.dlc.some
           THEN LET c == select_id_from_cfds(event.id)
                    before == committed[c]
                IN  [committed EXCEPT ![c] =
                       Commit(event_id, event.dlc.val,
                              before.some /\ (before.replaced
                                              \/ before.event_id # event_id))]
           ELSE committed
      /\ UNCHANGED <<takerVars, endpointVars>>

\* insert of RolloverCompleted{dlc: Some(dlc), funding_fee}
InsertRolloverCompleted ==
  /\ \E event_id \in EventRowIds :
       \E event \in {e \in CfdEvents : /\ e.id = events[event_id]
                                       /\ e.kind = "RolloverCompleted" /\ e.dlc.some} :
         \E order \in IterationOrders(DOMAIN event.dlc.val.cets) :
           \E fault \in Faults(Len(Statements(event_id, event, order))) :
             Insert(event_id, event, order, fault)

\* insert of RolloverCompleted{dlc: None, ..}
InsertRolloverWithoutDlc ==
  /\ \E event_id \in EventRowIds :
       \E event \in {e \in CfdEvents : /\ e.id = events[event_id]
                                       /\ e.kind = "RolloverCompleted" /\ ~e.dlc.some} :
         Insert(event_id, event, <<>>, NoFault)

\* insert of any other EventKind
InsertOtherEvent ==
  /\ \E event_id \in EventRowIds :
       \E event \in {e \in CfdEvents : /\ e.id = events[event_id]
                                       /\ e.kind # "RolloverCompleted"} :
         Insert(event_id, event, <<>>, NoFault)

\* one call of load
Load ==
  /\ \E cfd_row_id \in {cfds[id] : id \in DOMAIN cfds} :
       \E event_row_id \in EventRowIds :
         s_last' = [op |-> "load", cfd_row_id |-> cfd_row_id,
                    event_row_id |-> event_row_id,
                    result |-> load(Tables, cfd_row_id, event_row_id)]
  /\ UNCHANGED <<rollover_completed_event_data, revoked_commit_transactions, open_cets,
                 committed>>
  /\ UNCHANGED <<takerVars, endpointVars>>

NextStore ==
  \/ InsertRolloverCompleted
  \/ InsertRolloverWithoutDlc
  \/ InsertOtherEvent
  \/ Load

(***************************************************************************)
(* PEER ENDPOINT                                                           *)
(***************************************************************************)

\* bounds of the endpoint model
MaxEndpointCmds == 3

MaxMailbox == 2

MaxConns == 2

MaxSubstreams == 1

\* the longest handler list given to Endpoint::new
MaxHandlers == 3

Peers == {"p1", "p2"}

NoPeer == "-"

Addresses == {"/memory/42"}

NoAddress == "-"

\* a Multiaddr: the transport part and the optional /p2p/<PeerId> suffix
Multiaddr(transport, p2p) == [transport |-> transport, p2p |-> p2p]

\* MultiaddrExt::extract_peer_id: the suffix, NoPeer when there is none
extract_peer_id(addr) == addr.p2p

\* the handlers given to Endpoint::new, as (protocol, handler) pairs
inbound_substream_handlers ==
  <<[protocol |-> "/hello-world/1.0.0", handler |-> "h1"],
    [protocol |-> "/ping/1.0.0", handler |-> "h2"]>>

Handlers == {inbound_substream_handlers[i].handler : i \in DOMAIN inbound_substream_handlers}

RECURSIVE insert_handlers(_, _)
\* the map after the first n handlers were inserted; a later entry replaces an
\* earlier one for the same protocol
insert_handlers(handlers, n) ==
  IF n = 0 THEN [protocol \in {} |-> "h1"]
  ELSE LET map == insert_handlers(handlers, n - 1)
       IN  [protocol \in DOMAIN map \cup {handlers[n].protocol} |->
              IF protocol = handlers[n].protocol THEN handlers[n].handler
              ELSE map[protocol]]

verify_unique_handlers(handlers) == insert_handlers(handlers, Len(handlers))

\* Endpoint::inbound_substream_channels
inbound_substream_channels == verify_unique_handlers(inbound_substream_handlers)

\* debug_assert!(previous_handler.is_none()) holds at every insert
no_previous_handler(handlers) ==
  \A i, j \in DOMAIN handlers : handlers[i].protocol = handlers[j].protocol => i = j

\* the outcome of Endpoint::new: a panic, or an endpoint with its channels
Panicked == [ok |-> FALSE]

Constructed(channels) == [ok |-> TRUE, inbound_substream_channels |-> channels]

\* Endpoint::new with the given handlers, in a build with or without debug
\* assertions: debug_assert! is compiled out when they are off
new(handlers, debug_assertions) ==
  IF debug_assertions /\ ~no_previous_handler(handlers)
  THEN Panicked
  ELSE Constructed(verify_unique_handlers(handlers))

\* the handler lists Endpoint::new is called with
HandlerLists ==
  LET pairs == {[protocol |-> pr, handler |-> h] :
                  pr \in {"/hello-world/1.0.0", "/ping/1.0.0"}, h \in {"h1", "h2"}}
  IN  UNION {[1..n -> pairs] : n \in 0..MaxHandlers}

NewCall(handlers, debug_assertions) ==
  [handlers |-> handlers, debug_assertions |-> debug_assertions,
   result |-> new(handlers, debug_assertions)]

\* no ConnectionStats returned yet
NoStats == [connected_peers |-> {}, listen_addresses |-> {}, returned |-> FALSE]

\* no OpenSubstream handled yet
NoReply == [result |-> "none"]

\* no entry in controls
NoControl == 0

\* a message in the endpoint's mailbox. conn is the connection a NewConnection
\* carries; on ExistingConnectionFailed it names the connection whose acceptor
\* failed, which the message itself does not carry ({ peer, error })
Msg(type, peer, addr, conn) == [type |-> type, peer |-> peer, addr |-> addr, conn |-> conn]

EndpointInit ==
  /\ controls = [p \in Peers |-> NoControl]
  /\ inflight_connections = {}
  /\ listen_addresses = {}
  /\ mailbox = <<>>
  /\ dialing = [p \in Peers |-> 0]
  /\ listening = [a \in Addresses |-> 0]
  /\ conns = <<>>
  /\ substreams = <<>>
  /\ handler_inbox = [h \in Handlers |-> <<>>]
  /\ handlers_alive = Handlers
  /\ connect_log = [p \in Peers |-> <<>>]
  /\ e_cmds = 0
  /\ teardown = [p \in Peers |-> "none"]
  /\ dial_outcomes = [p \in Peers |-> 0]
  /\ stats = NoStats
  /\ open_reply = NoReply
  /\ outbound = <<>>
  /\ e_new = NewCall(inbound_substream_handlers, TRUE)

\* a user sends a command to the endpoint's address
SendCommand(msg) ==
  /\ e_cmds < MaxEndpointCmds
  /\ Len(mailbox) < MaxMailbox
  /\ e_cmds' = e_cmds + 1
  /\ mailbox' = Append(mailbox, msg)
  /\ UNCHANGED <<controls, inflight_connections, listen_addresses, dialing, listening,
                 conns, substreams, handler_inbox, handlers_alive, connect_log,
                 teardown, dial_outcomes, callerVars>>
  /\ UNCHANGED <<takerVars, storeVars>>

SendConnect ==
  /\ \E a \in Addresses, p \in Peers \cup {NoPeer} :
       SendCommand(Msg("Connect", NoPeer, Multiaddr(a, p), 0))

SendDisconnect ==
  /\ \E p \in Peers : SendCommand(Msg("Disconnect", p, Multiaddr(NoAddress, NoPeer), 0))

SendListenOn ==
  /\ \E a \in Addresses : SendCommand(Msg("ListenOn", NoPeer, Multiaddr(a, NoPeer), 0))

\* a task posts a message to the endpoint
Post(msg) ==
  /\ Len(mailbox) < MaxMailbox
  /\ mailbox' = Append(mailbox, msg)

\* the endpoint takes the next message of the given type from its mailbox
Take(type) ==
  /\ mailbox # <<>>
  /\ Head(mailbox).type = type
  /\ mailbox' = Tail(mailbox)

\* the connection table after connection c was closed or dropped
Closed(cs, c) == [cs EXCEPT ![c].state = "closed"]

\* the peer's results of Connect, with a mark where the peer was dropped
Dropped(log) ==
  IF log = <<>> \/ log[Len(log)] = "Dropped" THEN log ELSE Append(log, "Dropped")

\* a handler that leaves the peer's entry in controls alone
keep_connection(peer) == UNCHANGED <<controls, conns, connect_log>>

\* Endpoint::drop_connection
drop_connection(peer) ==
  /\ controls' = [controls EXCEPT ![peer] = NoControl]
  /\ conns' = IF controls[peer] = NoControl THEN conns ELSE Closed(conns, controls[peer])
  /\ connect_log' = [connect_log EXCEPT ![peer] = Dropped(@)]

\* the rest of the endpoint's state a handler leaves alone
EndpointFrame(changed) ==
  /\ IF "controls" \in changed THEN TRUE ELSE UNCHANGED <<controls, conns, connect_log>>
  /\ IF "inflight_connections" \in changed THEN TRUE ELSE UNCHANGED inflight_connections
  /\ IF "listen_addresses" \in changed THEN TRUE ELSE UNCHANGED listen_addresses
  /\ IF "dialing" \in changed THEN TRUE ELSE UNCHANGED dialing
  /\ IF "listening" \in changed THEN TRUE ELSE UNCHANGED listening
  /\ IF "teardown" \in changed THEN TRUE ELSE UNCHANGED teardown
  /\ IF "dial_outcomes" \in changed THEN TRUE ELSE UNCHANGED dial_outcomes
  /\ IF "callers" \in changed THEN TRUE ELSE UNCHANGED callerVars
  /\ UNCHANGED <<substreams, handler_inbox, handlers_alive, e_cmds>>
  /\ UNCHANGED <<takerVars, storeVars>>

\* the check of handle(Connect) with the test of the controls map left out
already_connected_inflight_only(peer) == peer \in inflight_connections

\* self.inflight_connections.contains(&peer) || self.controls.contains_key(&peer)
already_connected(peer) ==
  peer \in inflight_connections \/ controls[peer] # NoControl

\* handle(Connect)
HandleConnect ==
  /\ Take("Connect")
  /\ LET peer == extract_peer_id(Head(mailbox).addr)
     IN  IF peer = NoPeer                     \* Err(NoPeerIdInAddress)
         THEN EndpointFrame({})
         ELSE IF already_connected(peer)      \* Err(AlreadyConnected)
         THEN /\ connect_log' = [connect_log EXCEPT ![peer] = Append(@, "AlreadyConnected")]
              /\ teardown' = [teardown EXCEPT ![peer] = "none"]
              /\ UNCHANGED <<controls, conns>>
              /\ EndpointFrame({"controls", "teardown"})
         ELSE /\ inflight_connections' = inflight_connections \cup {peer}
              /\ dialing' = [dialing EXCEPT ![peer] = @ + 1]
              /\ connect_log' = [connect_log EXCEPT ![peer] = Append(@, "Ok")]
              /\ teardown' = [teardown EXCEPT ![peer] = "none"]
              /\ UNCHANGED <<controls, conns>>
              /\ EndpointFrame({"controls", "inflight_connections", "dialing",
                                "teardown"})

\* the dial task of handle(Connect): the dial and the upgrade succeed
DialSucceeds(peer) ==
  /\ dialing[peer] > 0
  /\ Len(conns) < MaxConns
  /\ Post(Msg("NewConnection", peer, Multiaddr(NoAddress, NoPeer), Len(conns) + 1))
  /\ dialing' = [dialing EXCEPT ![peer] = @ - 1]
  /\ conns' = Append(conns, [peer |-> peer, origin |-> "dial", state |-> "upgraded",
                             skipped |-> FALSE])
  /\ UNCHANGED <<controls, connect_log>>
  /\ EndpointFrame({"controls", "dialing"})

\* a dial task that ends in failure without telling the endpoint
DialFailsSilently(peer) ==
  /\ dialing[peer] > 0
  /\ dialing' = [dialing EXCEPT ![peer] = @ - 1]
  /\ UNCHANGED mailbox
  /\ EndpointFrame({"dialing"})

\* the dial task of handle(Connect): the dial or the upgrade fails
DialFails(peer) ==
  /\ dialing[peer] > 0
  /\ Post(Msg("FailedToConnect", peer, Multiaddr(NoAddress, NoPeer), 0))
  /\ dialing' = [dialing EXCEPT ![peer] = @ - 1]
  /\ EndpointFrame({"dialing"})

\* handle(NewConnection)
HandleNewConnection ==
  /\ Take("NewConnection")
  /\ LET msg == Head(mailbox)
         previous == controls[msg.peer]
     IN  /\ inflight_connections' = inflight_connections \ {msg.peer}
         /\ controls' = [controls EXCEPT ![msg.peer] = msg.conn]
         /\ conns' = [(IF previous = NoControl THEN conns ELSE Closed(conns, previous))
                        EXCEPT ![msg.conn].state = "established"]
         /\ dial_outcomes' = IF conns[msg.conn].origin = "dial"
                             THEN [dial_outcomes EXCEPT ![msg.peer] = @ + 1]
                             ELSE dial_outcomes
         /\ UNCHANGED connect_log
  /\ EndpointFrame({"controls", "inflight_connections", "dial_outcomes"})

\* handle(ListenerFailed)
HandleListenerFailed ==
  /\ Take("ListenerFailed")
  /\ listen_addresses' = listen_addresses \ {Head(mailbox).addr.transport}
  /\ EndpointFrame({"listen_addresses"})

\* handle(FailedToConnect)
HandleFailedToConnect ==
  /\ Take("FailedToConnect")
  /\ inflight_connections' = inflight_connections \ {Head(mailbox).peer}
  /\ drop_connection(Head(mailbox).peer)
  /\ dial_outcomes' = [dial_outcomes EXCEPT ![Head(mailbox).peer] = @ + 1]
  /\ EndpointFrame({"controls", "inflight_connections", "dial_outcomes"})

\* handle(ExistingConnectionFailed)
HandleExistingConnectionFailed ==
  /\ Take("ExistingConnectionFailed")
  /\ drop_connection(Head(mailbox).peer)
  /\ EndpointFrame({"controls"})

\* handle(Disconnect)
HandleDisconnect ==
  /\ Take("Disconnect")
  /\ drop_connection(Head(mailbox).peer)
  /\ teardown' = [teardown EXCEPT ![Head(mailbox).peer] = "disconnected"]
  /\ EndpointFrame({"controls", "teardown"})

\* a caller sends GetConnectionStats; the query changes nothing, so the number
\* of queries is bounded by the mailbox alone
SendGetConnectionStats ==
  /\ Post(Msg("GetConnectionStats", NoPeer, Multiaddr(NoAddress, NoPeer), 0))
  /\ EndpointFrame({})

\* ConnectionStats { connected_peers, listen_addresses }
ConnectionStats ==
  [connected_peers |-> {p \in Peers : controls[p] # NoControl},
   listen_addresses |-> listen_addresses, returned |-> TRUE]

\* what the caller of Disconnect(p) knows once it reads the stats: p is gone
\* from connected_peers, or p is (still or again) listed
Observe(seen, p, reply) ==
  IF seen = "none" THEN "none"
  ELSE IF p \in reply.connected_peers THEN "disconnected" ELSE "observed"

\* handle(GetConnectionStats)
HandleGetConnectionStats ==
  /\ Take("GetConnectionStats")
  /\ stats' = ConnectionStats
  /\ teardown' = [p \in Peers |-> Observe(teardown[p], p, ConnectionStats)]
  /\ UNCHANGED <<open_reply, outbound, e_new>>
  /\ EndpointFrame({"teardown", "callers"})

\* handle(ListenOn)
HandleListenOn ==
  /\ Take("ListenOn")
  /\ listen_addresses' = listen_addresses \cup {Head(mailbox).addr.transport}
  /\ listening' = [listening EXCEPT ![Head(mailbox).addr.transport] = @ + 1]
  /\ EndpointFrame({"listen_addresses", "listening"})

\* the listener task of handle(ListenOn): a peer's upgrade succeeds
ListenerAccepts(addr, peer) ==
  /\ listening[addr] > 0
  /\ Len(conns) < MaxConns
  /\ Post(Msg("NewConnection", peer, Multiaddr(NoAddress, NoPeer), Len(conns) + 1))
  /\ conns' = Append(conns, [peer |-> peer, origin |-> "listener", state |-> "upgraded",
                             skipped |-> FALSE])
  /\ UNCHANGED <<controls, connect_log>>
  /\ EndpointFrame({"controls"})

\* the listener task of handle(ListenOn): listen_on, the listener or an upgrade fails
ListenerFails(addr) ==
  /\ listening[addr] > 0
  /\ Post(Msg("ListenerFailed", NoPeer, Multiaddr(addr, NoPeer), 0))
  /\ listening' = [listening EXCEPT ![addr] = @ - 1]
  /\ EndpointFrame({"listening"})

\* xtras::SendAsyncSafe on a handler's channel: the message is queued if the
\* handler's mailbox is open, and an error is returned (nothing queued) if not
send_async_safe(inboxes, channel, msg) ==
  IF channel \in handlers_alive
  THEN [inboxes EXCEPT ![channel] = Append(@, msg)]
  ELSE inboxes

\* the lookup with the negotiated protocol ignored
channel_of_any_protocol(protocol) == inbound_substream_handlers[1].handler

\* inbound_substream_channels.get(&protocol).expect(..)
channel_of(protocol) == inbound_substream_channels[protocol]

\* the substream acceptor of a connection: a substream was negotiated and is
\* sent to the channel of its protocol; the result of the send is discarded
AcceptorDispatches(c, protocol) ==
  /\ c \in DOMAIN conns
  /\ conns[c].state = "established"
  /\ Len(substreams) < MaxSubstreams
  /\ protocol \in DOMAIN inbound_substream_channels
  /\ substreams' = Append(substreams, [conn |-> c, peer |-> conns[c].peer,
                                       protocol |-> protocol,
                                       after_skipped |-> conns[c].skipped])
  /\ handler_inbox' = send_async_safe(handler_inbox, channel_of(protocol),
                                      [peer |-> conns[c].peer,
                                       stream |-> Len(substreams) + 1])
  /\ UNCHANGED <<controls, inflight_connections, listen_addresses, mailbox, dialing,
                 listening, conns, handlers_alive, connect_log, e_cmds, teardown,
                 dial_outcomes, callerVars>>
  /\ UNCHANGED <<takerVars, storeVars>>

\* the substream acceptor with the two negotiation errors taken for fatal
AcceptorBails(c) ==
  /\ c \in DOMAIN conns
  /\ conns[c].state = "established"
  /\ Post(Msg("ExistingConnectionFailed", conns[c].peer, Multiaddr(NoAddress, NoPeer), c))
  /\ conns' = [conns EXCEPT ![c].state = "failed", ![c].skipped = TRUE]
  /\ UNCHANGED <<controls, connect_log>>
  /\ EndpointFrame({"controls"})

\* the substream acceptor: a negotiation timed out or failed; the loop logs it
\* and continues (skipped records that the connection has had such a substream)
AcceptorContinues(c) ==
  /\ c \in DOMAIN conns
  /\ conns[c].state = "established"
  /\ conns' = [conns EXCEPT ![c].skipped = TRUE]
  /\ UNCHANGED <<controls, connect_log, mailbox>>
  /\ EndpointFrame({"controls"})

\* an acceptor task that ends without its failure callback posting anything
AcceptorFailsSilently(c) ==
  /\ c \in DOMAIN conns
  /\ conns[c].state = "established"
  /\ conns' = [conns EXCEPT ![c].state = "failed"]
  /\ UNCHANGED <<controls, connect_log, mailbox>>
  /\ EndpointFrame({"controls"})

\* the substream acceptor: the substream listener closed or the connection
\* failed; the task ends and its failure callback posts ExistingConnectionFailed
AcceptorFails(c) ==
  /\ c \in DOMAIN conns
  /\ conns[c].state = "established"
  /\ Post(Msg("ExistingConnectionFailed", conns[c].peer, Multiaddr(NoAddress, NoPeer), c))
  /\ conns' = [conns EXCEPT ![c].state = "failed"]
  /\ UNCHANGED <<controls, connect_log>>
  /\ EndpointFrame({"controls"})

\* a handler actor stops: its mailbox is closed from now on
HandlerStops(h) ==
  /\ h \in handlers_alive
  /\ handlers_alive' = handlers_alive \ {h}
  /\ UNCHANGED <<controls, inflight_connections, listen_addresses, mailbox, dialing,
                 listening, conns, substreams, handler_inbox, connect_log, e_cmds,
                 teardown, dial_outcomes, callerVars>>
  /\ UNCHANGED <<takerVars, storeVars>>

\* one call of Endpoint::new
Construct(handlers, debug_assertions) ==
  /\ e_new' = NewCall(handlers, debug_assertions)
  /\ UNCHANGED <<controls, inflight_connections, listen_addresses, mailbox, dialing,
                 listening, conns, substreams, handler_inbox, handlers_alive,
                 connect_log, e_cmds, teardown, dial_outcomes, stats, open_reply,
                 outbound>>
  /\ UNCHANGED <<takerVars, storeVars>>

NextConstruct ==
  \/ \E handlers \in HandlerLists, debug_assertions \in BOOLEAN :
       Construct(handlers, debug_assertions)

\* connection management: every step of the endpoint but the dispatch of
\* inbound substreams, which touches none of the connection state
NextConnections ==
  \/ SendConnect
  \/ SendDisconnect
  \/ SendListenOn
  \/ HandleConnect
  \/ HandleNewConnection
  \/ HandleListenerFailed
  \/ HandleFailedToConnect
  \/ HandleExistingConnectionFailed
  \/ HandleDisconnect
  \/ HandleListenOn
  \/ \E peer \in Peers : DialSucceeds(peer)
  \/ \E peer \in Peers : DialFails(peer)
  \/ \E addr \in Addresses, peer \in Peers : ListenerAccepts(addr, peer)
  \/ \E addr \in Addresses : ListenerFails(addr)
  \/ \E c \in 1..MaxConns : AcceptorContinues(c)
  \/ \E c \in 1..MaxConns : AcceptorFails(c)

\* the protocols a remote peer's endpoint was constructed with
remote_protocols(peer) ==
  IF peer = "p1" THEN {"/hello-world/1.0.0", "/ping/1.0.0"} ELSE {"/hello-world/1.0.0"}

\* the protocol lists OpenSubstream is built with
ProtocolLists ==
  {<<"/hello-world/1.0.0">>, <<"/foo/9.9.9">>, <<"/foo/9.9.9", "/ping/1.0.0">>,
   <<"/ping/1.0.0", "/hello-world/1.0.0">>}

\* OpenSubstream { peer, protocols, marker_num_protocols }
OpenSubstream(peer, protocols, marker_num_protocols) ==
  [type |-> "OpenSubstream", peer |-> peer, addr |-> Multiaddr(NoAddress, NoPeer),
   conn |-> 0, protocols |-> protocols, marker_num_protocols |-> marker_num_protocols]

\* OpenSubstream::single_protocol(peer, protocol)
single_protocol(peer, protocol) == OpenSubstream(peer, <<protocol>>, "Single")

\* OpenSubstream::multiple_protocols(peer, protocols)
multiple_protocols(peer, protocols) == OpenSubstream(peer, protocols, "Multiple")

SendOpenSubstream ==
  /\ \E peer \in Peers, protocols \in ProtocolLists :
       \/ Len(protocols) = 1 /\ SendCommand(single_protocol(peer, protocols[1]))
       \/ SendCommand(multiple_protocols(peer, protocols))

\* no protocol selected
NoProtocol == "-"

RECURSIVE select_last(_, _, _)
\* the proposals from the k-th on: the last one the listener supports
select_last(protocols, supported, k) ==
  IF k > Len(protocols) THEN NoProtocol
  ELSE IF select_last(protocols, supported, k + 1) # NoProtocol
  THEN select_last(protocols, supported, k + 1)
  ELSE IF protocols[k] \in supported THEN protocols[k]
  ELSE NoProtocol

RECURSIVE select_from(_, _, _)
\* the proposals from the k-th on: the first one the listener does not answer
\* with "na" is selected
select_from(protocols, supported, k) ==
  IF k > Len(protocols) THEN NoProtocol
  ELSE IF protocols[k] \in supported THEN protocols[k]
  ELSE select_from(protocols, supported, k + 1)

\* a negotiation in which the listener's own first protocol is taken
listener_selects(protocols, supported) ==
  IF "/hello-world/1.0.0" \in supported THEN "/hello-world/1.0.0" ELSE NoProtocol

\* multistream_select::dialer_select_proto(stream, protocols, Version::V1): the
\* dialer proposes its protocols in order
dialer_select_proto(protocols, supported) == select_from(protocols, supported, 1)

\* a lookup that finds a control for every peer
get_control_of_any(peer) == peer \in Peers

\* self.controls.get_mut(&peer) is Some
get_control(peer) == controls[peer] # NoControl

\* the result of Endpoint::open_substream
OpenResult(result, protocol, stream) ==
  [result |-> result, protocol |-> protocol, stream |-> stream]

\* Endpoint::open_substream: the results the call can have. control.open_stream
\* can fail (BadConnection), the negotiation can time out, and it can fail
\* because the listener supports none of the protocols or because the stream
\* broke under it (both NegotiationFailed); Ok carries the selected protocol
open_substream(peer, protocols) ==
  IF ~get_control(peer) THEN {OpenResult("NoConnection", NoProtocol, 0)}
  ELSE {OpenResult("BadConnection", NoProtocol, 0),
        OpenResult("NegotiationTimeoutReached", NoProtocol, 0),
        OpenResult("NegotiationFailed", NoProtocol, 0)}
       \cup (IF controls[peer] = NoControl \/ conns[controls[peer]].state # "established"
             THEN {}
             ELSE LET protocol == dialer_select_proto(protocols, remote_protocols(peer))
                  IN  IF protocol = NoProtocol THEN {}
                      ELSE {OpenResult("Ok", protocol, Len(outbound) + 1)})

\* handle(OpenSubstream<Single>) and handle(OpenSubstream<Multiple>)
HandleOpenSubstream ==
  /\ Take("OpenSubstream")
  /\ LET msg == Head(mailbox)
     IN  \E r \in open_substream(msg.peer, msg.protocols) :
           /\ open_reply' = [peer |-> msg.peer, protocols |-> msg.protocols,
                             marker_num_protocols |-> msg.marker_num_protocols,
                             result |-> r.result, protocol |-> r.protocol,
                             stream |-> r.stream]
           /\ outbound' = IF r.result = "Ok"
                          THEN Append(outbound, [peer |-> msg.peer,
                                                 protocol |-> r.protocol,
                                                 state |-> "negotiated"])
                          ELSE outbound
  /\ UNCHANGED <<stats, e_new>>
  /\ EndpointFrame({"callers"})

\* the acceptor loop of the remote endpoint takes a negotiated substream and
\* sends it to the handler of its protocol; the substream is dropped if that
\* handler has stopped
RemoteAcceptorDispatches(s, handler_alive) ==
  /\ s \in DOMAIN outbound
  /\ outbound[s].state = "negotiated"
  /\ outbound' = [outbound EXCEPT ![s].state =
                    IF handler_alive THEN "delivered" ELSE "dropped"]
  /\ UNCHANGED <<stats, open_reply, e_new>>
  /\ UNCHANGED <<mailbox>>
  /\ EndpointFrame({"callers"})

\* connection management and outbound substreams
NextSubstreams ==
  \/ NextConnections
  \/ SendOpenSubstream
  \/ HandleOpenSubstream
  \/ \E s \in 1..MaxEndpointCmds, handler_alive \in BOOLEAN :
       RemoteAcceptorDispatches(s, handler_alive)

\* connection management and the stats query
NextStats ==
  \/ NextConnections
  \/ SendGetConnectionStats
  \/ HandleGetConnectionStats

NextEndpoint ==
  \/ SendConnect
  \/ SendDisconnect
  \/ SendListenOn
  \/ HandleConnect
  \/ HandleNewConnection
  \/ HandleListenerFailed
  \/ HandleFailedToConnect
  \/ HandleExistingConnectionFailed
  \/ HandleDisconnect
  \/ HandleListenOn
  \/ \E peer \in Peers : DialSucceeds(peer)
  \/ \E peer \in Peers : DialFails(peer)
  \/ \E addr \in Addresses, peer \in Peers : ListenerAccepts(addr, peer)
  \/ \E addr \in Addresses : ListenerFails(addr)
  \/ \E c \in 1..MaxConns, protocol \in DOMAIN inbound_substream_channels :
       AcceptorDispatches(c, protocol)
  \/ \E c \in 1..MaxConns : AcceptorContinues(c)
  \/ \E c \in 1..MaxConns : AcceptorFails(c)
  \/ \E h \in Handlers : HandlerStops(h)

(***************************************************************************)
(* SPECIFICATIONS                                                          *)
(***************************************************************************)

vars == <<takerVars, storeVars, endpointVars>>

\* the taker controller before it is constructed over an empty store
TakerIdle == TakerInit /\ db_orders = {}

InitTaker == TakerInit /\ StoreInit /\ EndpointInit

InitStore == StoreInit /\ TakerIdle /\ EndpointInit

InitEndpoint == EndpointInit /\ TakerIdle /\ StoreInit

SpecTaker == InitTaker /\ [][NextTaker]_vars

SpecStore == InitStore /\ [][NextStore]_vars

SpecEndpoint == InitEndpoint /\ [][NextEndpoint]_vars

SpecConnections == InitEndpoint /\ [][NextConnections]_vars

SpecConstruct == InitEndpoint /\ [][NextConstruct]_vars

SpecStats == InitEndpoint /\ [][NextStats]_vars

SpecSubstreams == InitEndpoint /\ [][NextSubstreams]_vars

\* the endpoint actor handles the next message of its mailbox
EndpointHandles ==
  \/ HandleConnect
  \/ HandleNewConnection
  \/ HandleListenerFailed
  \/ HandleFailedToConnect
  \/ HandleExistingConnectionFailed
  \/ HandleDisconnect
  \/ HandleListenOn

\* connection management under fair scheduling: the actor keeps handling its
\* mailbox, and every dial attempt ends, in success or in failure
FairConnections ==
  /\ InitEndpoint
  /\ [][NextConnections]_vars
  /\ WF_vars(EndpointHandles)
  /\ \A peer \in Peers : WF_vars(DialSucceeds(peer) \/ DialFails(peer))

(***************************************************************************)
(* Claims about the taker controller                                       *)
(***************************************************************************)

CfdStateOf(order_id) ==
  IF HasCfd(order_id, db_cfds)
  THEN load_cfd_by_order_id(order_id, db_cfds).val.state ELSE None

\* C2: at most one contract setup is in progress at any moment: the setup
\* actors whose completion has not been handled yet number at most one, and
\* the retained handle current_contract_setup refers to that one.
C2_AtMostOneSetup ==
  /\ Cardinality(ActiveSetups) <= 1
  /\ \A a \in ActiveSetups : current_contract_setup = a

\* C5: once CfdSetupCompleted has been handled the controller is still
\* running, the CFD of the finished setup is Open, the CFD feed holds the
\* stored CFDs and the retained setup handle is cleared.
C5_SetupCompletedApplied ==
  message.type = "CfdSetupCompleted" =>
    /\ t_pc = "running"
    /\ current_contract_setup = NoSetup
    /\ CfdStateOf(setups[message.actor].order_id) = "Open"
    /\ cfd_feed = Sent(db_cfds)

\* C6: an IncProtocolMsg handled while there is no setup handle leaves the
\* controller running.
C6_IncProtocolMsgWithoutSetup ==
  (message.type = "IncProtocolMsg" /\ current_contract_setup = NoSetup) =>
    t_pc = "running"

\* C9: a command that cannot be applied (TakeOrder for an order that is not in
\* the store, OrderAccepted for an order that has no CFD) leaves the
\* controller running.
C9_InapplicableCommandKeepsRunning ==
  (\/ message.type = "TakeOrder" /\ message.order_id \notin db_orders
   \/ message.type = "OrderAccepted" /\ ~HasCfd(message.order_id, db_cfds)) =>
    t_pc = "running"

Handling(type) ==
  /\ t_pc = "running"
  /\ receiver # <<>>
  /\ Head(receiver).type = type
  /\ message' = Head(receiver)
  /\ receiver' \in {Tail(receiver), <<>>}

\* the wire messages TakerToMaker::TakeOrder among the messages to the maker
TakeOrdersSent(out) == SelectSeq(out, LAMBDA m : m.type = "TakeOrder")

\* C19 (amended): handling TakeOrder{order_id, quantity} to the end of its arm sends
\* exactly one wire TakeOrder{order_id, quantity} to the maker; the message is
\* sent only when the new CFD in PendingTakeRequest is in the store and the CFD
\* feed holds a list that contains it (an arm that panics before sends none);
\* no other step sends a wire TakeOrder.
C19_TakeOrderSentAfterPersist ==
  [][IF Handling("TakeOrder")
     THEN LET cmd == Head(receiver)
              wire == [type |-> "TakeOrder", order_id |-> cmd.order_id,
                       quantity |-> cmd.quantity]
              cfd == [order_id |-> cmd.order_id, quantity |-> cmd.quantity,
                      state |-> "PendingTakeRequest"]
          IN  /\ out_msg_maker' \in {out_msg_maker, Append(out_msg_maker, wire)}
              /\ t_pc' = "running" => out_msg_maker' = Append(out_msg_maker, wire)
              /\ out_msg_maker' # out_msg_maker
                   => /\ \E i \in DOMAIN db_cfds' : db_cfds'[i] = cfd
                      /\ cfd_feed'.sent
                      /\ \E j \in DOMAIN cfd_feed'.val : cfd_feed'.val[j] = cfd
     ELSE TakeOrdersSent(out_msg_maker') = TakeOrdersSent(out_msg_maker)]_vars

\* C19: witness: a TakeOrder was handled to the end: its wire message is the
\* last message to the maker, its CFD is stored and is in the feed
C19_Witness ==
  /\ message.type = "TakeOrder"
  /\ t_pc = "running"
  /\ out_msg_maker # <<>>
  /\ out_msg_maker[Len(out_msg_maker)] =
       [type |-> "TakeOrder", order_id |-> message.order_id,
        quantity |-> message.quantity]
  /\ CfdStateOf(message.order_id) = "PendingTakeRequest"
  /\ cfd_feed.sent
  /\ \E j \in DOMAIN cfd_feed.val : cfd_feed.val[j].order_id = message.order_id

\* C19 (as stated): whenever TakeOrder{order_id, quantity} is handled, exactly
\* one wire TakeOrder{order_id, quantity} is sent to the maker, with the new CFD
\* in PendingTakeRequest in the store and in the list the CFD feed holds.
C19_TakeOrderAlwaysSent ==
  [][Handling("TakeOrder")
       => LET cmd == Head(receiver)
              wire == [type |-> "TakeOrder", order_id |-> cmd.order_id,
                       quantity |-> cmd.quantity]
              cfd == [order_id |-> cmd.order_id, quantity |-> cmd.quantity,
                      state |-> "PendingTakeRequest"]
          IN  /\ out_msg_maker' = Append(out_msg_maker, wire)
              /\ \E i \in DOMAIN db_cfds' : db_cfds'[i] = cfd
              /\ cfd_feed'.sent
              /\ \E j \in DOMAIN cfd_feed'.val : cfd_feed'.val[j] = cfd]_vars

\* C25: an IncProtocolMsg handled after the current setup actor has finished
\* and before its CfdSetupCompleted has been handled is discarded: the
\* controller keeps running and no setup actor receives the message.
C25_LateProtocolMsgDiscarded ==
  [][(/\ Handling("IncProtocolMsg")
      /\ current_contract_setup # NoSetup
      /\ setups[current_contract_setup].phase = "finished")
       => /\ t_pc' = "running"
          /\ setups' = setups]_vars

\* C26: OrderAccepted(order_id) handled while the CFD of order_id is not in
\* PendingTakeRequest (or does not exist) changes no CFD state, spawns no
\* setup actor and leaves the retained setup handle as it was.
C26_OrderAcceptedOnlyFromPendingTakeRequest ==
  [][(/\ Handling("OrderAccepted")
      /\ CfdStateOf(Head(receiver).order_id) # "PendingTakeRequest")
       => /\ db_cfds' = db_cfds
          /\ setups' = setups
          /\ current_contract_setup' = current_contract_setup]_vars

\* C32: whenever the controller is at receiver.recv(), before the first
\* command and after every command it has finished handling, the last value
\* sent on the CFD feed is the full list of the CFDs in the store.
C32_FeedHoldsStoredCfds ==
  t_pc = "running" => (cfd_feed.sent /\ cfd_feed.val = db_cfds)

\* C32: witness: the controller has finished handling an OrderAccepted; the
\* CFD is in ContractSetup in the store and in the feed
C32_Witness ==
  /\ t_pc = "running"
  /\ message.type = "OrderAccepted"
  /\ CfdStateOf(message.order_id) = "ContractSetup"
  /\ cfd_feed.sent
  /\ \E j \in DOMAIN cfd_feed.val :
       /\ cfd_feed.val[j].order_id = message.order_id
       /\ cfd_feed.val[j].state = "ContractSetup"

(***************************************************************************)
(* Claims about the rollover store                                         *)
(***************************************************************************)

\* the rows of a CFD in a table
RowsOf(table, cfd_id) == SelectSeq(table, LAMBDA r : r.cfd_id = cfd_id)

\* every amount of the payload is below 2^63 satoshi
AmountsBelow2p63(dlc, funding_fee) ==
  /\ dlc.maker_lock_amount.b63 = 0
  /\ dlc.taker_lock_amount.b63 = 0
  /\ funding_fee.fee.b63 = 0
  /\ \A e \in DOMAIN dlc.cets : \A i \in DOMAIN dlc.cets[e] :
       dlc.cets[e][i].maker_amount.b63 = 0 /\ dlc.cets[e][i].taker_amount.b63 = 0

\* C3: when a sub-insert of an insert of RolloverCompleted{dlc: Some} fails (an
\* error, or rows_affected different from 1), insert returns an error and the
\* rows of the three tables are exactly what they were before the call,
\* including the rows the call's own delete step had removed.
C3_FailedSubInsertLeavesRows ==
  [][(s_last'.op = "insert" /\ s_last'.fault.site = "insert")
       => /\ s_last'.result = Failed
          /\ rollover_completed_event_data' = rollover_completed_event_data
          /\ revoked_commit_transactions' = revoked_commit_transactions
          /\ open_cets' = open_cets]_vars

\* C3: witness: the third insert_cet of a second rollover of a CFD has failed
\* (rows_affected different from 1) and the CFD's earlier rows are in all three tables
C3_Witness ==
  /\ s_last.op = "insert"
  /\ s_last.fault = [site |-> "insert", index |-> 6, kind |-> "rows_affected"]
  /\ s_last.result = Failed
  /\ RowsOf(rollover_completed_event_data, cfds[s_last.event.id]) # <<>>
  /\ RowsOf(revoked_commit_transactions, cfds[s_last.event.id]) # <<>>
  /\ RowsOf(open_cets, cfds[s_last.event.id]) # <<>>

\* C8: for every Dlc and FundingFee whose amounts are all below 2^63 satoshi, a
\* successful insert of RolloverCompleted{dlc: Some(d), funding_fee: f} followed
\* by load with the CFD's row id and the event's row id returns Some((d, f)).
C8_InsertThenLoadRoundTrips ==
  [][(/\ s_last.op = "insert"
      /\ s_last.result = Done
      /\ s_last.event.kind = "RolloverCompleted"
      /\ s_last.event.dlc.some
      /\ AmountsBelow2p63(s_last.event.dlc.val, s_last.event.funding_fee)
      /\ s_last'.op = "load"
      /\ s_last'.cfd_row_id = cfds[s_last.event.id]
      /\ s_last'.event_row_id = s_last.event_id)
       => s_last'.result = Found(s_last.event.dlc.val, s_last.event.funding_fee)]_vars

\* the stored amounts of the tables: every i64 column that holds satoshi
StoredAmounts(tx) ==
  UNION {{tx.rollover_completed_event_data[i].funding_fee,
          tx.rollover_completed_event_data[i].maker_lock_amount,
          tx.rollover_completed_event_data[i].taker_lock_amount} :
           i \in DOMAIN tx.rollover_completed_event_data}
  \cup UNION {{tx.open_cets[i].maker_amount, tx.open_cets[i].taker_amount} :
                i \in DOMAIN tx.open_cets}

\* the stored amounts a load of (cfd_row_id, event_row_id) reads
AmountsRead(tx, cfd_row_id, event_row_id) ==
  StoredAmounts(
    [rollover_completed_event_data |->
       SelectSeq(tx.rollover_completed_event_data,
                 LAMBDA r : r.cfd_id = cfd_row_id /\ r.event_id = event_row_id),
     revoked_commit_transactions |-> <<>>,
     open_cets |-> RowsOf(tx.open_cets, cfd_row_id)])

\* C12: insert called with an EventKind other than RolloverCompleted returns an
\* error and writes no row.
C12_OtherEventKindRefused ==
  [][(s_last'.op = "insert" /\ s_last'.event.kind # "RolloverCompleted")
       => /\ s_last'.result = Failed
          /\ UNCHANGED <<rollover_completed_event_data, revoked_commit_transactions,
                         open_cets>>]_vars

\* C13: insert of a Dlc or FundingFee in which some amount is 2^63 satoshi or
\* more returns an error and writes nothing, and no amount is ever stored as a
\* negative 64-bit integer.
C13_HugeAmountRejected ==
  [][/\ (/\ s_last'.op = "insert"
         /\ s_last'.event.kind = "RolloverCompleted"
         /\ s_last'.event.dlc.some
         /\ ~AmountsBelow2p63(s_last'.event.dlc.val, s_last'.event.funding_fee))
          => /\ s_last'.result = Failed
             /\ UNCHANGED <<rollover_completed_event_data, revoked_commit_transactions,
                            open_cets>>
     /\ \A a \in StoredAmounts(Tables)' : ~a.negative]_vars

\* C14: load returns an error whenever a stored amount it reads (funding_fee,
\* maker_lock_amount, taker_lock_amount, a CET's maker_amount or taker_amount)
\* is negative.
C14_NegativeAmountIsError ==
  [][(/\ s_last'.op = "load"
      /\ \E r \in DOMAIN rollover_completed_event_data :
           /\ rollover_completed_event_data[r].cfd_id = s_last'.cfd_row_id
           /\ rollover_completed_event_data[r].event_id = s_last'.event_row_id
      /\ \E a \in AmountsRead(Tables, s_last'.cfd_row_id, s_last'.event_row_id) :
           a.negative)
       => ~s_last'.result.ok]_vars

\* C15: after a successful insert of RolloverCompleted{dlc: Some(d)} the CFD has
\* exactly one rollover_completed_event_data row for the event, one
\* revoked_commit_transactions row per entry of d.revoked_commit and one
\* open_cets row per CET of every oracle event of d.cets, and no other row of
\* the last two tables, whatever rows it had before the call.
C15_SuccessfulInsertWritesExactRows ==
  (/\ s_last.op = "insert"
   /\ s_last.result = Done
   /\ s_last.event.kind = "RolloverCompleted"
   /\ s_last.event.dlc.some)
    => LET d == s_last.event.dlc.val
           cfd == cfds[s_last.event.id]
           data == RowsOf(rollover_completed_event_data, cfd)
           revoked == RowsOf(revoked_commit_transactions, cfd)
           cets == RowsOf(open_cets, cfd)
       IN  /\ Len(SelectSeq(data, LAMBDA r : r.event_id = s_last.event_id)) = 1
           /\ Len(revoked) = Len(d.revoked_commit)
           /\ \A i \in DOMAIN d.revoked_commit :
                Len(SelectSeq(revoked, LAMBDA r : r.txid = d.revoked_commit[i].txid)) = 1
           /\ \A e \in DOMAIN d.cets :
                /\ Len(SelectSeq(cets, LAMBDA r : r.oracle_event_id = e)) = Len(d.cets[e])
                /\ \A i \in DOMAIN d.cets[e] :
                     Len(SelectSeq(cets, LAMBDA r : /\ r.oracle_event_id = e
                                                    /\ r.txid = to_string(d.cets[e][i].txid)))
                       = 1
           /\ \A i \in DOMAIN cets : cets[i].oracle_event_id \in DOMAIN d.cets

\* C15: witness: the second rollover event of a CFD was inserted with two
\* revoked commits and three CETs, while the other CFD has rows of its own
C15_Witness ==
  /\ s_last.op = "insert"
  /\ s_last.result = Done
  /\ s_last.event_id = 2
  /\ s_last.event.kind = "RolloverCompleted"
  /\ s_last.event.dlc.some
  /\ Len(s_last.event.dlc.val.revoked_commit) = 2
  /\ Len(RowsOf(open_cets, cfds[s_last.event.id])) = 3
  /\ \E i \in DOMAIN open_cets : open_cets[i].cfd_id # cfds[s_last.event.id]

\* the CETs of a Dlc as load groups them: oracle events without a CET have no
\* row and so no entry
CetsWithRows(dlc) ==
  [e \in {x \in DOMAIN dlc.cets : dlc.cets[x] # <<>>} |-> dlc.cets[e]]

\* C29: when load(cfd_row_id, event_row_id) finds a row, the event is the
\* rollover insert committed last for that CFD, and the revoked commits and
\* the CETs of the result are those of that insert alone, whatever other
\* rollover events were inserted for the CFD before.
C29_LoadReturnsOneEventsRows ==
  (s_last.op = "load" /\ s_last.result.ok /\ s_last.result.row.some)
    => LET c == committed[s_last.cfd_row_id]
           loaded == s_last.result.row.val[1]
       IN  /\ c.some
           /\ c.event_id = s_last.event_row_id
           /\ loaded.revoked_commit = c.dlc.revoked_commit
           /\ loaded.cets = CetsWithRows(c.dlc)
           /\ loaded.maker_lock_amount = c.dlc.maker_lock_amount

\* C29: witness: a load found the rows of a rollover event that had taken the
\* place of an earlier rollover event of the same CFD, which had revoked commits
C29_Witness ==
  /\ s_last.op = "load"
  /\ s_last.result.ok
  /\ s_last.result.row.some
  /\ committed[s_last.cfd_row_id].replaced
  /\ s_last.result.row.val[1].revoked_commit = <<>>
  /\ s_last.result.row.val[1].cets # <<>>

\* the rows of a table with their multiplicities, whatever their order
RowBag(table) ==
  [r \in {table[i] : i \in DOMAIN table} |->
     Cardinality({i \in DOMAIN table : table[i] = r})]

\* C31: an insert of RolloverCompleted{dlc: Some} that repeats the insert
\* before it (same CFD, same event row id, same event), which had succeeded,
\* leaves each of the three tables with the same rows as before, none of them
\* twice, and load returns for the event what it returned before.
C31_RepeatedInsertIsIdempotent ==
  [][(/\ s_last'.op = "insert"
      /\ s_last'.again
      /\ s_last'.event.kind = "RolloverCompleted"
      /\ s_last'.event.dlc.some)
       => LET c == select_id_from_cfds(s_last'.event.id)
          IN  /\ RowBag(rollover_completed_event_data')
                   = RowBag(rollover_completed_event_data)
              /\ RowBag(revoked_commit_transactions')
                   = RowBag(revoked_commit_transactions)
              /\ RowBag(open_cets') = RowBag(open_cets)
              /\ \A t \in {rollover_completed_event_data', revoked_commit_transactions',
                           open_cets'} :
                   \A r \in DOMAIN RowBag(RowsOf(t, c)) : RowBag(RowsOf(t, c))[r] = 1
              /\ Len(RowsOf(rollover_completed_event_data', c)) = 1
              /\ load([rollover_completed_event_data |-> rollover_completed_event_data',
                       revoked_commit_transactions |-> revoked_commit_transactions',
                       open_cets |-> open_cets'], c, s_last'.event_id)
                   = load(Tables, c, s_last'.event_id)]_vars

\* C31: witness: an event with revoked commits and CETs for two oracle events
\* was inserted a second time, and the second insert succeeded as well
C31_Witness ==
  /\ s_last.op = "insert"
  /\ s_last.again
  /\ s_last.result = Done
  /\ s_last.event.kind = "RolloverCompleted"
  /\ s_last.event.dlc.some
  /\ s_last.event.dlc.val.revoked_commit # <<>>
  /\ Len(RowsOf(open_cets, select_id_from_cfds(s_last.event.id))) = 3

(***************************************************************************)
(* Claims about the peer endpoint                                          *)
(***************************************************************************)

\* the results of the peer's Connect commands, in the order they were handled
ConnectResults(p) == SelectSeq(connect_log[p], LAMBDA r : r # "Dropped")

\* the handlers' inbox entries that carry substream s
Deliveries(s) ==
  {e \in UNION {{[handler |-> h, at |-> i] : i \in DOMAIN handler_inbox[h]} : h \in Handlers} :
     handler_inbox[e.handler][e.at].stream = s}

\* C1: in every reachable state each PeerId has at most one connection,
\* counting the dials started by Connect that have not been reported back and
\* the established connections, dialled or accepted through a listener.
C1_OneConnectionPerPeer ==
  \A p \in Peers : dialing[p] + (IF controls[p] # NoControl THEN 1 ELSE 0) <= 1

C18_DuplicateProtocolFailsConstruction ==
  ~no_previous_handler(e_new.handlers) => e_new.result = Panicked

\* C11: once Disconnect(p) has been handled and a GetConnectionStats handled
\* after it has returned connected_peers without p, the next Connect for p that
\* the endpoint handles returns Ok.
C11_ConnectAfterObservedDisconnect ==
  [][\A p \in Peers :
       (/\ teardown[p] = "observed"
        /\ Len(connect_log'[p]) = Len(connect_log[p]) + 1
        /\ connect_log'[p][Len(connect_log'[p])] \in {"Ok", "AlreadyConnected"})
         => connect_log'[p][Len(connect_log'[p])] = "Ok"]_vars

\* the step is the endpoint handling an OpenSubstream
OpenHandled ==
  /\ mailbox # <<>>
  /\ Head(mailbox).type = "OpenSubstream"
  /\ mailbox' = Tail(mailbox)

\* the first protocol of the list that is in the registry
FirstOffered(protocols, registry) ==
  LET offered == {i \in DOMAIN protocols : protocols[i] \in registry}
  IN  IF offered = {} THEN NoProtocol
      ELSE protocols[CHOOSE i \in offered : \A j \in offered : i <= j]

C17_FirstOfferedProtocol ==
  [][(OpenHandled /\ controls[Head(mailbox).peer] # NoControl)
       => LET msg == Head(mailbox)
              first == FirstOffered(msg.protocols, remote_protocols(msg.peer))
          IN  /\ open_reply'.result \in {"Ok", "NegotiationFailed", "BadConnection",
                                        "NegotiationTimeoutReached"}
              /\ open_reply'.result = "Ok"
                   => /\ first # NoProtocol
                      /\ open_reply'.protocol = first
                      /\ outbound' = Append(outbound, [peer |-> msg.peer,
                                                       protocol |-> first,
                                                       state |-> "negotiated"])
                      /\ open_reply'.stream = Len(outbound')
              /\ open_reply'.result # "Ok" => outbound' = outbound]_vars

\* C17: witness: a list whose first protocol the peer does not support was
\* offered and the second was selected
C17_Witness ==
  /\ open_reply.result = "Ok"
  /\ open_reply.protocols = <<"/foo/9.9.9", "/ping/1.0.0">>
  /\ open_reply.protocol = "/ping/1.0.0"

\* C17 (as stated): OpenSubstream with an ordered protocol list L, handled for
\* a connected peer whose registry is R, returns the first protocol of L that
\* is in R together with the substream, and returns NegotiationFailed when no
\* protocol of L is in R.
C17_AlwaysFirstOrNegotiationFailed ==
  [][(OpenHandled /\ controls[Head(mailbox).peer] # NoControl)
       => LET msg == Head(mailbox)
              first == FirstOffered(msg.protocols, remote_protocols(msg.peer))
          IN  IF first = NoProtocol
              THEN open_reply'.result = "NegotiationFailed"
              ELSE open_reply'.result = "Ok" /\ open_reply'.protocol = first]_vars

\* C20: OpenSubstream handled for a peer that has no entry in controls returns
\* NoConnection and leaves controls, inflight_connections and
\* listen_addresses as they were.
C20_NoConnectionWithoutControl ==
  [][(OpenHandled /\ controls[Head(mailbox).peer] = NoControl)
       => /\ open_reply'.result = "NoConnection"
          /\ open_reply'.peer = Head(mailbox).peer
          /\ UNCHANGED <<controls, inflight_connections, listen_addresses,
                         outbound>>]_vars

\* C20: witness: NoConnection was returned for a peer whose dial is in flight
C20_Witness ==
  /\ open_reply.result = "NoConnection"
  /\ open_reply.peer \in inflight_connections
  /\ controls[open_reply.peer] = NoControl

\* the Connects for the peer that returned Ok
OkConnects(p) ==
  Cardinality({i \in DOMAIN connect_log[p] : connect_log[p][i] = "Ok"})

C22_StaleFailureKeepsLaterConnection ==
  [][(/\ mailbox # <<>>
      /\ Head(mailbox).type = "ExistingConnectionFailed"
      /\ mailbox' = Tail(mailbox)
      /\ controls[Head(mailbox).peer] # NoControl
      /\ controls[Head(mailbox).peer] # Head(mailbox).conn)
       => controls'[Head(mailbox).peer] = controls[Head(mailbox).peer]]_vars

\* C23: handling FailedToConnect for a peer leaves the peer neither in the
\* in-flight set nor in controls, whatever controls held for it before.
C23_FailedToConnectLeavesAbsent ==
  [][(/\ mailbox # <<>>
      /\ Head(mailbox).type = "FailedToConnect"
      /\ mailbox' = Tail(mailbox))
       => /\ Head(mailbox).peer \notin inflight_connections'
          /\ controls'[Head(mailbox).peer] = NoControl]_vars

\* C23: witness: the one dial to a peer failed after the peer had connected
\* through the listener; the accepted connection is closed and the peer absent
C23_Witness ==
  \E p \in Peers :
    /\ OkConnects(p) = 1
    /\ dial_outcomes[p] = 1
    /\ teardown[p] = "none"
    /\ conns = <<[peer |-> p, origin |-> "listener", state |-> "closed",
                  skipped |-> FALSE]>>
    /\ controls[p] = NoControl
    /\ p \notin inflight_connections

\* C24: while no Connect for p has been handled since Disconnect(p) was, p is
\* in controls only with a connection that came in through a listener: a dial
\* that was in flight when Disconnect was handled establishes none.
C24_DisconnectedStaysDisconnected ==
  \A p \in Peers :
    (teardown[p] # "none" /\ controls[p] # NoControl)
      => conns[controls[p]].origin = "listener"

\* the mailbox holds an ExistingConnectionFailed for the peer
FailurePending(p) ==
  \E i \in DOMAIN mailbox :
    mailbox[i].type = "ExistingConnectionFailed" /\ mailbox[i].peer = p

\* C27: a connection whose substream acceptor has ended with an error has an
\* ExistingConnectionFailed for its peer in the mailbox for as long as it is
\* the peer's registered connection, and under fair scheduling a pending
\* ExistingConnectionFailed leads to the peer being out of connected_peers.
C27_AcceptorFailureRemovesPeer ==
  /\ [](\A c \in DOMAIN conns :
          conns[c].state = "failed"
            => \E i \in DOMAIN mailbox :
                 /\ mailbox[i].type = "ExistingConnectionFailed"
                 /\ mailbox[i].peer = conns[c].peer
                 /\ mailbox[i].conn = c)
  /\ \A p \in Peers : FailurePending(p) ~> (controls[p] = NoControl)

\* C27: witness: with one command sent (a Connect or a ListenOn), the one
\* connection made so far has been closed, which only the handling of its
\* ExistingConnectionFailed does
C27_Witness ==
  /\ e_cmds = 1
  /\ Len(conns) = 1
  /\ conns[1].state = "closed"
  /\ controls[conns[1].peer] = NoControl
  /\ mailbox = <<>>

\* C28: a negotiation of an inbound substream that times out or fails leaves
\* the connection established, controls and the mailbox as they were (no
\* ExistingConnectionFailed is posted), and a substream negotiated on that
\* connection afterwards is still sent to the channel of its protocol.
C28_FailedNegotiationKeepsConnection ==
  [][\A c \in DOMAIN conns :
       /\ (conns[c].state = "established" /\ ~conns[c].skipped /\ conns'[c].skipped)
            => /\ conns'[c].state = "established"
               /\ controls' = controls
               /\ mailbox' = mailbox
       /\ (/\ conns[c].skipped
           /\ Len(substreams') = Len(substreams) + 1
           /\ substreams'[Len(substreams')].conn = c)
            => LET sub == substreams'[Len(substreams')]
                   channel == inbound_substream_channels[sub.protocol]
               IN  /\ conns[c].state = "established"
                   /\ channel \in handlers_alive
                        => handler_inbox'[channel] =
                             Append(handler_inbox[channel],
                                    [peer |-> conns[c].peer,
                                     stream |-> Len(substreams')])]_vars

\* C28: witness: a substream negotiated after a failed negotiation on the same
\* connection is in its handler's inbox, and the peer is still connected
C28_Witness ==
  \E s \in DOMAIN substreams :
    /\ substreams[s].after_skipped
    /\ controls[substreams[s].peer] = substreams[s].conn
    /\ \E h \in Handlers : \E k \in DOMAIN handler_inbox[h] :
         handler_inbox[h][k].stream = s

\* C30: whenever no ListenerFailed is in the mailbox, the listen_addresses
\* that GetConnectionStats would report are exactly the addresses with at
\* least one listener task still running.
C30_ListenAddressesAreRunningListeners ==
  (\A i \in DOMAIN mailbox : mailbox[i].type # "ListenerFailed")
    => \A a \in Addresses :
         a \in ConnectionStats.listen_addresses <=> listening[a] > 0

====
